---- MODULE Spec2Model ----
(***************************************************************************)
(* RTE Zones: delivery-zone containment queries and city enrichment.       *)
(* A model of RTEZoneChecker (src/rte_zones.py) and of its twin            *)
(* GeoZoneChecker (src/geo_zones_checker.py), whose load_data,             *)
(* point_in_zones, get_city_from_*, add_city_column and save_data are the  *)
(* same code line for line.                                                *)
(*                                                                         *)
(* Column names are written in ASCII: "ID_rest" is the column 'ID реста',  *)
(* "Partner" is 'Партнер', "ID_internal" is 'ID внутренний'.               *)
(***************************************************************************)
EXTENDS Integers, Sequences, FiniteSets, TLC

VARIABLES polygons_file, disk, df, gdf, phase, q, pass, last

vars == <<polygons_file, disk, df, gdf, phase, q, pass, last>>

(***************************************************************************)
(* Bounds of the model.                                                    *)
(***************************************************************************)
\* Longest source table of the query specification.
MaxRows == 3
\* Longest source table of the enrichment specification.
MaxZones == 2
\* Largest batch_size an enrichment pass is started with.
MaxBatch == 2
\* Query points have lat, lon in 0..GridMax.
GridMax == 4

\* delay: float = 1.0, the default get_city_from_geometry always calls with.
Delay == 1

(***************************************************************************)
(* Values.  pandas' missing value NaN, Python's None and the empty string  *)
(* are three different values of a cell.                                   *)
(***************************************************************************)
NaN == "<NaN>"
None == "<None>"

\* WKT text is a geometry keyword and the numbers of its single ring, in the
\* order they are written: "POLYGON((0 0,0 3,3 3,3 0,0 0))" is
\* [tag |-> "POLYGON", nums |-> <<0,0,0,3,3,3,3,0,0,0>>].
Wkt(tag, nums) == [tag |-> tag, nums |-> nums]
EmptyText == Wkt("", <<>>)
NaNWkt == Wkt("<NaN>", <<>>)

WktSquare == Wkt("POLYGON", <<0,0, 0,3, 3,3, 3,0, 0,0>>)
WktRect == Wkt("POLYGON", <<1,0, 4,0, 4,2, 1,2, 1,0>>)
WktTriangle == Wkt("POLYGON", <<0,0, 4,0, 0,4, 0,0>>)
\* Malformed texts: a ring that is not closed, a dangling coordinate, a ring of
\* fewer than four points, and text that is no WKT at all.
WktOpenRing == Wkt("POLYGON", <<0,0, 0,3, 3,3, 3,0>>)
WktOddCoords == Wkt("POLYGON", <<0,0, 0,3, 3>>)
WktShortRing == Wkt("POLYGON", <<0,0, 3,3, 0,0>>)
WktGarbage == Wkt("not a polygon", <<>>)

(***************************************************************************)
(* shapely: parsing and the containment predicate.                         *)
(***************************************************************************)
Min(a, b) == IF a <= b THEN a ELSE b
Max(a, b) == IF a >= b THEN a ELSE b

XY(x, y) == [x |-> x, y |-> y]

\* The ring of a well-formed text: its points in order, the closing point
\* (a repeat of the first) included.
RingOf(nums) == [i \in 1..(Len(nums) \div 2) |-> XY(nums[2 * i - 1], nums[2 * i])]

\* loads(wkt_string): the geometry, or an exception.
loads(wkt) ==
    IF /\ wkt.tag = "POLYGON"
       /\ Len(wkt.nums) % 2 = 0
       /\ Len(wkt.nums) >= 8
       /\ RingOf(wkt.nums)[1] = RingOf(wkt.nums)[Len(wkt.nums) \div 2]
    THEN [raised |-> FALSE, geom |-> RingOf(wkt.nums)]
    ELSE [raised |-> TRUE, geom |-> <<>>]

Cross(a, b, p) == (b.x - a.x) * (p.y - a.y) - (b.y - a.y) * (p.x - a.x)

OnSegment(a, b, p) ==
    /\ Cross(a, b, p) = 0
    /\ Min(a.x, b.x) <= p.x /\ p.x <= Max(a.x, b.x)
    /\ Min(a.y, b.y) <= p.y /\ p.y <= Max(a.y, b.y)

\* The point lies on the polygon's boundary (an edge or a vertex).
OnBoundary(geom, p) ==
    \E i \in 1..(Len(geom) - 1) : OnSegment(geom[i], geom[i + 1], p)

\* The ray from p towards +x crosses the edge a-b.
RayCrosses(a, b, p) ==
    /\ (a.y > p.y) # (b.y > p.y)
    /\ IF b.y > a.y
       THEN (p.x - a.x) * (b.y - a.y) < (p.y - a.y) * (b.x - a.x)
       ELSE (p.x - a.x) * (b.y - a.y) > (p.y - a.y) * (b.x - a.x)

Crossings(geom, p) ==
    Cardinality({i \in 1..(Len(geom) - 1) : RayCrosses(geom[i], geom[i + 1], p)})

\* geometry.covers(point): interior or boundary.
covers(geom, p) == OnBoundary(geom, p) \/ Crossings(geom, p) % 2 = 1

\* geometry.contains(point): shapely's contains is true of a point only when
\* the point lies in the polygon's interior; a point of the boundary is not
\* contained.
contains(geom, p) == ~OnBoundary(geom, p) /\ Crossings(geom, p) % 2 = 1

(***************************************************************************)
(* Tables.  A file on disk is a table of cell texts; a DataFrame is a      *)
(* table of values.  Both are [columns, rows]: the column names in order   *)
(* and one function column -> cell per row; a row's label is its position, *)
(* counted from 0.                                                         *)
(***************************************************************************)
NoFile == [exists |-> FALSE, columns |-> <<>>, rows |-> <<>>]
File(columns, rows) == [exists |-> TRUE, columns |-> columns, rows |-> rows]

NoneFrame == [isNone |-> TRUE, columns |-> <<>>, rows |-> <<>>]
Frame(columns, rows) == [isNone |-> FALSE, columns |-> columns, rows |-> rows]

NoneGeoFrame == [isNone |-> TRUE, columns |-> <<>>, recs |-> <<>>]
GeoFrame(columns, recs) == [isNone |-> FALSE, columns |-> columns, recs |-> recs]

Range(s) == {s[i] : i \in 1..Len(s)}

\* pd.read_csv: an empty cell is read as NaN, any other cell as its text.
ReadCell(col, text) ==
    IF col = "WKT"
    THEN (IF text = EmptyText THEN NaNWkt ELSE text)
    ELSE (IF text = "" THEN NaN ELSE text)

\* to_csv: NaN and None are written as the empty cell.
WriteCell(col, value) ==
    IF col = "WKT"
    THEN (IF value = NaNWkt THEN EmptyText ELSE value)
    ELSE (IF value \in {NaN, None} THEN "" ELSE value)

read_csv(file) ==
    Frame(file.columns,
          [i \in 1..Len(file.rows) |->
              [c \in Range(file.columns) |-> ReadCell(c, file.rows[i][c])]])

to_csv(frame) ==
    File(frame.columns,
         [i \in 1..Len(frame.rows) |->
             [c \in Range(frame.columns) |-> WriteCell(c, frame.rows[i][c])]])

\* A path is its name and its extension, <<"polygons", ".csv">>; the code
\* tests path.endswith('.xlsx') and path.endswith('.csv').
Supported(path) == path[2] \in {".xlsx", ".csv"}

PolygonsCsv == <<"polygons", ".csv">>
PolygonsTxt == <<"polygons", ".txt">>
OutCsv == <<"out", ".csv">>
OutTxt == <<"out", ".txt">>
Paths == {PolygonsCsv, PolygonsTxt, OutCsv, OutTxt}

(***************************************************************************)
(* load_data                                                               *)
(***************************************************************************)
\* pd.notna(wkt_string)
notna(value) == value # NaNWkt

\* A load that numbers the records by their place among the valid rows.
RECURSIVE RenumberedRecs(_, _)
RenumberedRecs(rows, idx) ==
    LET Valid(i) == rows[i]["WKT"] # NaNWkt /\ ~loads(rows[i]["WKT"]).raised
        RECURSIVE From(_, _)
        From(i, n) ==
            IF i > Len(rows) THEN <<>>
            ELSE IF Valid(i)
                 THEN <<[index |-> n, geometry |-> loads(rows[i]["WKT"]).geom,
                         attrs |-> rows[i]]>> \o From(i + 1, n + 1)
                 ELSE From(i + 1, n)
    IN  From(idx + 1, idx)

\* The loop of lines 53-62 from row idx (counted from 0) on: the records of
\* the rows whose text is present and parses, each under its row label.
RECURSIVE ValidRecs(_, _)
ValidRecs(rows, idx) ==
    IF idx >= Len(rows) THEN <<>>
    ELSE LET wkt_string == rows[idx + 1]["WKT"]
             parsed == loads(wkt_string)
         IN  IF notna(wkt_string) /\ ~parsed.raised
             THEN <<[index |-> idx, geometry |-> parsed.geom, attrs |-> rows[idx + 1]]>>
                  \o ValidRecs(rows, idx + 1)
             ELSE ValidRecs(rows, idx + 1)

\* load_data on a checker whose frames are (old_df, old_gdf): the frames it
\* leaves and whether it raised.
load_data(path, files, old_df, old_gdf) ==
    IF ~Supported(path) \/ ~files[path].exists
    THEN [raised |-> TRUE, df |-> old_df, gdf |-> old_gdf]
    ELSE LET new_df == read_csv(files[path])
         IN  IF "WKT" \notin Range(new_df.columns)
             THEN [raised |-> TRUE, df |-> new_df, gdf |-> old_gdf]
             ELSE [raised |-> FALSE, df |-> new_df,
                   gdf |-> GeoFrame(new_df.columns \o <<"geometry">>,
                                    ValidRecs(new_df.rows, 0))]

(***************************************************************************)
(* Queries                                                                 *)
(***************************************************************************)
\* Point(lon, lat): shapely points are (x, y) = (lon, lat).
Point(lon, lat) == XY(lon, lat)

\* A scan that stops at the first zone containing the point.
MatchingFirstOnly(recs, point) ==
    LET Hit(rec) == contains(rec.geometry, point)
        hits == SelectSeq(recs, Hit)
    IN  IF hits = <<>> THEN <<>> ELSE <<hits[1]>>

\* self.gdf[self.gdf.geometry.contains(point)], then one result per row of
\* it: the row's label, its geometry and every other column.
Matching(recs, point) ==
    LET Hit(rec) == contains(rec.geometry, point)
    IN  SelectSeq(recs, Hit)

point_in_zones(self_gdf, lat, lon) ==
    IF self_gdf.isNone
    THEN [raised |-> TRUE, results |-> <<>>]
    ELSE [raised |-> FALSE, results |-> Matching(self_gdf.recs, Point(lon, lat))]

is_point_in_any_zone(self_gdf, lat, lon) ==
    LET r == point_in_zones(self_gdf, lat, lon)
    IN  [raised |-> r.raised, value |-> Len(r.results) > 0]

\* zone.get(key, default): the default only when the result has no such key.
Get(zone, key, default) ==
    IF key \in DOMAIN zone.attrs THEN zone.attrs[key] ELSE default

\* A dict key is found by identity or by equality.  NaN equals nothing, itself
\* included, so a NaN key is found by identity alone; whether the NaN of two
\* rows is one object depends on the column's dtype (the np.nan of an object
\* column, a float boxed per row for a float64 column): shared says which.
KeyOf(zone, value, shared) ==
    [val |-> value, obj |-> IF value = NaN /\ ~shared THEN zone.index + 1 ELSE 0]

\* A grouping that has lost line 141's test: every zone sets its restaurant's
\* group anew.
RECURSIVE GroupZonesOverwrite(_, _, _, _)
GroupZonesOverwrite(zones, i, restaurants, shared) ==
    IF i > Len(zones) THEN restaurants
    ELSE LET zone == zones[i]
             restaurant_id == Get(zone, "ID_rest", "unknown")
             key == KeyOf(zone, restaurant_id, shared)
             group == [key |-> key, restaurant_id |-> restaurant_id,
                       partner |-> Get(zone, "Partner", "unknown partner"),
                       zones |-> <<[name |-> Get(zone, "name", "unknown zone"),
                                    internal_id |-> Get(zone, "ID_internal", ""),
                                    index |-> zone.index]>>]
             known == \E g \in 1..Len(restaurants) : restaurants[g].key = key
         IN  GroupZonesOverwrite(zones, i + 1,
                 IF known
                 THEN [g \in 1..Len(restaurants) |->
                          IF restaurants[g].key = key THEN group ELSE restaurants[g]]
                 ELSE Append(restaurants, group),
                 shared)

\* for zone in zones: ... over zones[i..], with the dict built so far (its
\* values in insertion order).
RECURSIVE GroupZones(_, _, _, _)
GroupZones(zones, i, restaurants, shared) ==
    IF i > Len(zones) THEN restaurants
    ELSE LET zone == zones[i]
             restaurant_id == Get(zone, "ID_rest", "unknown")
             partner == Get(zone, "Partner", "unknown partner")
             zone_name == Get(zone, "name", "unknown zone")
             key == KeyOf(zone, restaurant_id, shared)
             entry == [name |-> zone_name,
                       internal_id |-> Get(zone, "ID_internal", ""),
                       index |-> zone.index]
             known == \E g \in 1..Len(restaurants) : restaurants[g].key = key
             with_key == IF known THEN restaurants
                         ELSE Append(restaurants,
                                     [key |-> key, restaurant_id |-> restaurant_id,
                                      partner |-> partner, zones |-> <<>>])
             appended == [g \in 1..Len(with_key) |->
                             IF with_key[g].key = key
                             THEN [with_key[g] EXCEPT !.zones = Append(@, entry)]
                             ELSE with_key[g]]
         IN  GroupZones(zones, i + 1, appended, shared)

get_restaurants_for_point(self_gdf, lat, lon, shared) ==
    LET r == point_in_zones(self_gdf, lat, lon)
    IN  IF r.raised THEN [raised |-> TRUE, groups |-> <<>>]
        ELSE [raised |-> FALSE, groups |-> GroupZones(r.results, 1, <<>>, shared)]

\* series.nunique(): the number of distinct values, missing values not counted.
nunique(recs, col) ==
    Cardinality({recs[k].attrs[col] : k \in 1..Len(recs)} \ {NaN, None})

\* series.value_counts().to_dict(): each value that occurs, missing values
\* aside, with the number of rows that hold it.
value_counts(recs, col) ==
    [v \in {recs[k].attrs[col] : k \in 1..Len(recs)} \ {NaN, None} |->
        Cardinality({k \in 1..Len(recs) : recs[k].attrs[col] = v})]

\* .head(10) of the city counts.
TopCities == 10

\* counts.head(n): the n most frequent values (every value when there are
\* no more than n).
head(counts, n) ==
    IF Cardinality(DOMAIN counts) <= n THEN counts
    ELSE LET top == CHOOSE S \in SUBSET DOMAIN counts :
                        /\ Cardinality(S) = n
                        /\ \A a \in S, b \in (DOMAIN counts) \ S : counts[a] >= counts[b]
         IN  [v \in top |-> counts[v]]

\* The empty dict.
NoStats ==
    [keys |-> {}, total_zones |-> 0, partners |-> 0, restaurants |-> 0,
     partner_distribution |-> <<>>, cities |-> 0, city_distribution |-> <<>>]

\* get_stats: the dict it returns, as its keys and the value of each (the
\* value of a key the dict lacks is left at its NoStats value).  It raises
\* nothing: with no store it returns the empty dict.
get_stats(self_gdf) ==
    IF self_gdf.isNone THEN [raised |-> FALSE, stats |-> NoStats]
    ELSE LET cols == Range(self_gdf.columns)
             recs == self_gdf.recs
         IN  [raised |-> FALSE,
              stats |->
                [keys |-> {"total_zones", "partners", "restaurants"}
                          \cup (IF "Partner" \in cols THEN {"partner_distribution"} ELSE {})
                          \cup (IF "city" \in cols THEN {"cities", "city_distribution"} ELSE {}),
                 total_zones |-> Len(recs),
                 partners |-> IF "Partner" \in cols THEN nunique(recs, "Partner") ELSE 0,
                 restaurants |-> IF "ID_rest" \in cols THEN nunique(recs, "ID_rest") ELSE 0,
                 partner_distribution |->
                     IF "Partner" \in cols THEN value_counts(recs, "Partner") ELSE <<>>,
                 cities |-> IF "city" \in cols THEN nunique(recs, "city") ELSE 0,
                 city_distribution |->
                     IF "city" \in cols THEN head(value_counts(recs, "city"), TopCities)
                     ELSE <<>>]]

\* The last query and what it returned.
NoQuery ==
    [op |-> "none", lat |-> 0, lon |-> 0, raised |-> FALSE,
     results |-> <<>>, value |-> FALSE, groups |-> <<>>, stats |-> NoStats]

(***************************************************************************)
(* The reverse-geocoding collaborator and the two lookup functions         *)
(***************************************************************************)
\* What one lookup meets: the centroid cannot be taken, requests.get raises
\* (network error, timeout), or a response arrives with a status and a body
\* that is JSON with an address object, or is not.
CentroidError == [kind |-> "centroid_error", status |-> 0, json |-> FALSE, address |-> <<>>]
NetworkError == [kind |-> "network_error", status |-> 0, json |-> FALSE, address |-> <<>>]
Response(status, json, address) ==
    [kind |-> "response", status |-> status, json |-> json, address |-> address]

Outcomes ==
    { CentroidError, NetworkError,
      Response(500, TRUE, <<>>),
      Response(200, FALSE, <<>>),
      Response(200, TRUE, <<>>),
      Response(200, TRUE, [county |-> ""]),
      Response(200, TRUE, [town |-> "Kazan", county |-> "Tatarstan"]) }

\* address.get(field): None when the address has no such field.
AddressGet(address, field) ==
    IF field \in DOMAIN address THEN address[field] ELSE None

\* a or b: b when a is falsy (None or the empty string).
Or(a, b) == IF a \in {None, ""} THEN b ELSE a

CityOf(address) ==
    Or(AddressGet(address, "city"),
       Or(AddressGet(address, "town"),
          Or(AddressGet(address, "village"),
             Or(AddressGet(address, "municipality"),
                AddressGet(address, "county")))))

\* get_city_from_coordinates: what it returns, whether the request was sent
\* and whether time.sleep(delay) ran before it returned.  It raises nothing:
\* every exception is caught at line 203.
get_city_from_coordinates(outcome, delay) ==
    IF outcome.kind = "network_error"
    THEN [city |-> None, requested |-> TRUE, slept |-> FALSE, raised |-> FALSE]
    ELSE IF outcome.status = 200
         THEN IF ~outcome.json
              THEN [city |-> None, requested |-> TRUE, slept |-> FALSE, raised |-> FALSE]
              ELSE [city |-> CityOf(outcome.address), requested |-> TRUE,
                    slept |-> delay > 0, raised |-> FALSE]
         ELSE [city |-> None, requested |-> TRUE, slept |-> FALSE, raised |-> FALSE]

\* A lookup without the try of line 217: a centroid failure is raised.
get_city_from_geometry_uncaught(outcome) ==
    IF outcome.kind = "centroid_error"
    THEN [city |-> None, requested |-> FALSE, slept |-> FALSE, raised |-> TRUE]
    ELSE get_city_from_coordinates(outcome, Delay)

\* get_city_from_geometry: the centroid, then the lookup with the default delay.
get_city_from_geometry(outcome) ==
    IF outcome.kind = "centroid_error"
    THEN [city |-> None, requested |-> FALSE, slept |-> FALSE, raised |-> FALSE]
    ELSE get_city_from_coordinates(outcome, Delay)

(***************************************************************************)
(* save_data                                                               *)
(***************************************************************************)
\* No path: save_file = None.
NoPath == <<"", "">>

HasLabel(self_gdf, idx) == \E k \in 1..Len(self_gdf.recs) : self_gdf.recs[k].index = idx

RecAt(self_gdf, idx) ==
    self_gdf.recs[CHOOSE k \in 1..Len(self_gdf.recs) : self_gdf.recs[k].index = idx]

\* An overlay that matches store records to rows by their place in the store,
\* not by their label.
OverlayByPosition(save_df, self_gdf, col) ==
    IF self_gdf.recs = <<>> \/ save_df.rows = <<>>
    THEN save_df
    ELSE Frame(Append(save_df.columns, col),
               [i \in 1..Len(save_df.rows) |->
                   [c \in Range(save_df.columns) \cup {col} |->
                       IF c # col THEN save_df.rows[i][c]
                       ELSE IF i <= Len(self_gdf.recs)
                            THEN self_gdf.recs[i].attrs[col]
                            ELSE NaN]])

\* Lines 279-281 for one column col that save_df lacks: save_df.at[idx, col]
\* is set for every label the store has too.  The first assignment creates
\* the column, NaN in every other row; with no common label nothing is
\* assigned and the column is not created.
Overlay(save_df, self_gdf, col) ==
    IF \A i \in 1..Len(save_df.rows) : ~HasLabel(self_gdf, i - 1)
    THEN save_df
    ELSE Frame(Append(save_df.columns, col),
               [i \in 1..Len(save_df.rows) |->
                   [c \in Range(save_df.columns) \cup {col} |->
                       IF c # col THEN save_df.rows[i][c]
                       ELSE IF HasLabel(self_gdf, i - 1)
                            THEN RecAt(self_gdf, i - 1).attrs[col]
                            ELSE NaN]])

\* for col in self.gdf.columns, from the k-th column on.
RECURSIVE OverlayColumns(_, _, _)
OverlayColumns(save_df, self_gdf, k) ==
    IF k > Len(self_gdf.columns) THEN save_df
    ELSE LET col == self_gdf.columns[k]
         IN  IF col \notin Range(save_df.columns) /\ col # "geometry"
             THEN OverlayColumns(Overlay(save_df, self_gdf, col), self_gdf, k + 1)
             ELSE OverlayColumns(save_df, self_gdf, k + 1)

\* save_data(filename): the files it leaves and whether it raised.
save_data(filename, self_df, self_gdf, files) ==
    IF self_gdf.isNone THEN [raised |-> TRUE, files |-> files]
    ELSE LET save_df == OverlayColumns(self_df, self_gdf, 1)
         IN  IF Supported(filename)
             THEN [raised |-> FALSE,
                   files |-> [files EXCEPT ![filename] = to_csv(save_df)]]
             ELSE [raised |-> TRUE, files |-> files]

(***************************************************************************)
(* add_city_column                                                         *)
(***************************************************************************)
\* pd.isna(value)
isna(value) == value \in {NaN, None}

\* A test that takes every record for one that needs a city.
PendingAlways(city) == TRUE

\* Line 245: the record still needs a city.
Pending(city) == isna(city) \/ city = ""

\* A start of the pass that resets the city of every record, whether the
\* store had a city column or not.
WithCityColumnReset(self_gdf) ==
    GeoFrame(IF "city" \in Range(self_gdf.columns) THEN self_gdf.columns
             ELSE Append(self_gdf.columns, "city"),
             [k \in 1..Len(self_gdf.recs) |->
                 [self_gdf.recs[k] EXCEPT !.attrs =
                     [c \in DOMAIN self_gdf.recs[k].attrs \cup {"city"} |->
                         IF c = "city" THEN None ELSE self_gdf.recs[k].attrs[c]]]])

\* Lines 238-239: the store with a city column, None in every record, if it
\* had none.
WithCityColumn(self_gdf) ==
    IF "city" \in Range(self_gdf.columns) THEN self_gdf
    ELSE GeoFrame(Append(self_gdf.columns, "city"),
                  [k \in 1..Len(self_gdf.recs) |->
                      [self_gdf.recs[k] EXCEPT !.attrs =
                          [c \in DOMAIN self_gdf.recs[k].attrs \cup {"city"} |->
                              IF c = "city" THEN None ELSE self_gdf.recs[k].attrs[c]]]])

\* self.gdf.at[idx, 'city'] = city, for the k-th record.
SetCity(self_gdf, k, city) ==
    [self_gdf EXCEPT !.recs[k].attrs["city"] = city]

\* A checkpoint after every record, whatever the batch size.
CheckpointEveryRecord(processed, batch_size, save_file) == save_file # NoPath

\* Line 253: a checkpoint is due.
CheckpointDue(processed, batch_size, save_file) ==
    processed % batch_size = 0 /\ save_file # NoPath

IdlePass ==
    [state |-> "idle", n |-> 0, save_file |-> NoPath, batch_size |-> 1,
     cursor |-> 1, processed |-> 0, seen |-> <<>>, looked |-> <<>>,
     succeeded |-> 0, since_call |-> -1, after_clean_pass |-> FALSE]

NoStep ==
    [kind |-> "none", zone |-> -1, pending |-> FALSE, outcome |-> CentroidError,
     city |-> None, requested |-> FALSE, slept |-> FALSE, gap |-> -1,
     saved |-> FALSE, save_raised |-> FALSE]

(***************************************************************************)
(* Source tables                                                           *)
(***************************************************************************)
\* All sequences over S of length at most n.
SeqsUpTo(S, n) == UNION {[1..k -> S] : k \in 0..n}

Project(row, columns) == [c \in Range(columns) |-> row[c]]

Table(columns, rows) ==
    File(columns, [i \in 1..Len(rows) |-> Project(rows[i], columns)])

SourceRow(wkt, rest, partner, name, city) ==
    [WKT |-> wkt, ID_rest |-> rest, Partner |-> partner, name |-> name, city |-> city]

\* Rows of the sources queried: overlapping zones of one restaurant, of two
\* restaurants and of none, and rows whose boundary is empty or malformed.
QueryRows ==
    { SourceRow(WktSquare, "r1", "A", "square", ""),
      SourceRow(WktRect, "r1", "B", "rect", ""),
      SourceRow(WktTriangle, "r2", "A", "triangle", ""),
      SourceRow(WktRect, "", "B", "nameless", ""),
      SourceRow(EmptyText, "r2", "B", "empty", ""),
      SourceRow(WktOpenRing, "r1", "A", "open", ""),
      SourceRow(WktGarbage, "", "A", "garbage", "") }

\* Rows of the sources that have no restaurant column.
PlainRows ==
    { SourceRow(WktSquare, "", "A", "square", ""),
      SourceRow(WktRect, "", "B", "rect", ""),
      SourceRow(EmptyText, "", "B", "empty", ""),
      SourceRow(WktOddCoords, "", "A", "odd", "") }

\* Rows of the sources enriched: zones with and without a city, and rows
\* that are no zone.
EnrichRows ==
    { SourceRow(WktSquare, "r1", "A", "square", ""),
      SourceRow(WktRect, "r2", "B", "rect", "Moscow"),
      SourceRow(WktShortRing, "r1", "A", "short", "") }

EnrichColumns == { <<"WKT", "name">>, <<"WKT", "name", "city">> }

\* Sources no checker can be built from: an extension that is not supported
\* and a table without the WKT column.
BrokenSources ==
    { [path |-> PolygonsTxt, table |-> Table(<<"WKT", "name">>, <<SourceRow(WktSquare, "r1", "A", "square", "")>>)],
      [path |-> PolygonsCsv, table |-> Table(<<"name", "Partner">>, <<SourceRow(WktSquare, "r1", "A", "square", "")>>)],
      [path |-> PolygonsCsv, table |-> NoFile] }

QuerySources ==
    BrokenSources \cup
    { [path |-> PolygonsCsv, table |-> Table(<<"WKT", "ID_rest", "Partner", "name">>, rows)] :
        rows \in SeqsUpTo(QueryRows, MaxRows) } \cup
    { [path |-> PolygonsCsv, table |-> Table(<<"name", "Partner", "WKT">>, rows)] :
        rows \in SeqsUpTo(PlainRows, MaxRows) }

EnrichSources ==
    BrokenSources \cup
    { [path |-> PolygonsCsv, table |-> Table(columns, rows)] :
        columns \in EnrichColumns, rows \in SeqsUpTo(EnrichRows, MaxZones) }

\* Files a loaded checker is pointed at next: a table without the WKT
\* column, a table of one zone, and a table under an extension that is not
\* supported.
ReloadTargets ==
    { [path |-> OutCsv, table |-> Table(<<"name", "Partner">>, <<SourceRow(WktTriangle, "r2", "B", "triangle", "")>>)],
      [path |-> OutCsv, table |-> Table(<<"WKT", "name">>, <<SourceRow(WktTriangle, "r2", "B", "triangle", "")>>)],
      [path |-> PolygonsTxt, table |-> Table(<<"WKT", "name">>, <<SourceRow(WktTriangle, "r2", "B", "triangle", "")>>)] }

(***************************************************************************)
(* The state machine                                                       *)
(***************************************************************************)
\* __init__ up to line 28: the path is kept, both frames are None, and
\* load_data is about to run.
InitFrom(sources) ==
    /\ \E source \in sources :
          /\ polygons_file = source.path
          /\ disk = [path \in Paths |-> IF path = source.path THEN source.table ELSE NoFile]
    /\ df = NoneFrame
    /\ gdf = NoneGeoFrame
    /\ phase = "new"
    /\ q = NoQuery
    /\ pass = IdlePass
    /\ last = NoStep

InitQuery == InitFrom(QuerySources)

InitEnrich == InitFrom(EnrichSources)

\* A source to build the checker from and a second file to point it at.
InitReload ==
    /\ \E source \in EnrichSources, target \in ReloadTargets :
          /\ polygons_file = source.path
          /\ disk = [path \in Paths |->
                        IF path = source.path THEN source.table
                        ELSE IF path = target.path THEN target.table
                        ELSE NoFile]
    /\ df = NoneFrame
    /\ gdf = NoneGeoFrame
    /\ phase = "new"
    /\ q = NoQuery
    /\ pass = IdlePass
    /\ last = NoStep

Init == InitFrom(QuerySources \cup EnrichSources) \/ InitReload

\* __init__, line 29: self.load_data().  When it raises no checker exists.
Load ==
    /\ phase = "new"
    /\ LET r == load_data(polygons_file, disk, df, gdf)
       IN  /\ df' = r.df
           /\ gdf' = r.gdf
           /\ phase' = IF r.raised THEN "failed" ELSE "loaded"
    /\ last' = [NoStep EXCEPT !.kind = "load"]
    /\ UNCHANGED <<polygons_file, disk, q, pass>>

\* checker.polygons_file = path; checker.load_data(): load_data run again on
\* a checker that exists.  When it raises, the checker is still there, with
\* whatever load_data had assigned before it raised.
Reload ==
    /\ phase = "loaded"
    /\ pass.state = "idle"
    /\ q.op = "none"
    /\ \E path \in Paths \ {polygons_file} :
          LET r == load_data(path, disk, df, gdf)
          IN  /\ polygons_file' = path
              /\ df' = r.df
              /\ gdf' = r.gdf
              /\ last' = [NoStep EXCEPT !.kind = IF r.raised THEN "reload_raised"
                                                 ELSE "reload"]
    /\ UNCHANGED <<disk, phase, q, pass>>

Coordinates == 0..GridMax

QueryPointInZones ==
    /\ phase = "loaded"
    /\ q.op = "none"
    /\ \E lat \in Coordinates, lon \in Coordinates :
          LET r == point_in_zones(gdf, lat, lon)
          IN  q' = [NoQuery EXCEPT !.op = "point_in_zones", !.lat = lat, !.lon = lon,
                                   !.raised = r.raised, !.results = r.results]
    /\ UNCHANGED <<polygons_file, disk, df, gdf, phase, pass, last>>

QueryIsPointInAnyZone ==
    /\ phase = "loaded"
    /\ q.op = "none"
    /\ \E lat \in Coordinates, lon \in Coordinates :
          LET r == is_point_in_any_zone(gdf, lat, lon)
          IN  q' = [NoQuery EXCEPT !.op = "is_point_in_any_zone", !.lat = lat, !.lon = lon,
                                   !.raised = r.raised, !.value = r.value]
    /\ UNCHANGED <<polygons_file, disk, df, gdf, phase, pass, last>>

QueryRestaurantsForPoint ==
    /\ phase = "loaded"
    /\ q.op = "none"
    /\ \E lat \in Coordinates, lon \in Coordinates, shared \in BOOLEAN :
          LET r == get_restaurants_for_point(gdf, lat, lon, shared)
          IN  q' = [NoQuery EXCEPT !.op = "get_restaurants_for_point", !.lat = lat,
                                   !.lon = lon,
                                   !.raised = r.raised, !.groups = r.groups]
    /\ UNCHANGED <<polygons_file, disk, df, gdf, phase, pass, last>>

QueryGetStats ==
    /\ phase = "loaded"
    /\ q.op = "none"
    /\ LET r == get_stats(gdf)
       IN  q' = [NoQuery EXCEPT !.op = "get_stats", !.raised = r.raised,
                                !.stats = r.stats]
    /\ UNCHANGED <<polygons_file, disk, df, gdf, phase, pass, last>>

CityAt(self_gdf, k) == self_gdf.recs[k].attrs["city"]

\* add_city_column(save_file, batch_size), lines 232-242, up to the loop:
\* iterrows() takes the rows as they are now.  A checker runs a first pass
\* and, once that has returned or raised, a second one.
EnrichStart ==
    /\ phase = "loaded"
    /\ pass.state # "running"
    /\ pass.n \in {0, 1}
    /\ \E save_file \in {NoPath, OutCsv, OutTxt}, batch_size \in 1..MaxBatch :
          LET store == WithCityColumn(gdf)
          IN  /\ gdf' = store
              /\ pass' = [IdlePass EXCEPT !.state = "running", !.n = pass.n + 1,
                                          !.save_file = save_file,
                                          !.batch_size = batch_size,
                                          !.after_clean_pass =
                                              /\ pass.n >= 1
                                              /\ pass.cursor > Len(gdf.recs)
                                              /\ pass.succeeded = Len(pass.looked),
                                          !.seen = [k \in 1..Len(store.recs) |-> CityAt(store, k)]]
    /\ last' = [NoStep EXCEPT !.kind = "start"]
    /\ UNCHANGED <<polygons_file, disk, df, phase, q>>

\* One turn of the loop, lines 244-255, for the record under the cursor.
EnrichStep ==
    /\ pass.state = "running"
    /\ pass.cursor <= Len(gdf.recs)
    /\ LET k == pass.cursor
           zone == gdf.recs[k].index
       IN  IF Pending(pass.seen[k])
           THEN \E outcome \in Outcomes :
                   LET r == get_city_from_geometry(outcome)
                       store == SetCity(gdf, k, r.city)
                       processed == pass.processed + 1
                       due == CheckpointDue(processed, pass.batch_size, pass.save_file)
                       saved == save_data(pass.save_file, df, store, disk)
                       failed == r.raised \/ (due /\ saved.raised)
                   IN  /\ gdf' = IF r.raised THEN gdf ELSE store
                       /\ disk' = IF due /\ ~r.raised THEN saved.files ELSE disk
                       /\ pass' = [pass EXCEPT
                                     !.state = IF failed THEN "aborted" ELSE "running",
                                     !.cursor = k + 1,
                                     !.processed = IF r.raised THEN @ ELSE processed,
                                     !.looked = Append(@, zone),
                                     !.succeeded = IF ~Pending(r.city) THEN @ + 1 ELSE @,
                                     !.since_call = IF ~r.requested THEN @
                                                    ELSE IF r.slept THEN Delay ELSE 0]
                       /\ last' = [kind |-> "visit", zone |-> zone, pending |-> TRUE,
                                   outcome |-> outcome, city |-> r.city,
                                   requested |-> r.requested, slept |-> r.slept,
                                   gap |-> IF r.requested THEN pass.since_call ELSE -1,
                                   saved |-> due /\ ~r.raised,
                                   save_raised |-> due /\ ~r.raised /\ saved.raised]
           ELSE /\ pass' = [pass EXCEPT !.cursor = k + 1]
                /\ last' = [NoStep EXCEPT !.kind = "visit", !.zone = zone]
                /\ UNCHANGED <<gdf, disk>>
    /\ UNCHANGED <<polygons_file, df, phase, q>>

\* Lines 257-260, after the loop: the final save.
EnrichFinish ==
    /\ pass.state = "running"
    /\ pass.cursor > Len(gdf.recs)
    /\ LET due == pass.save_file # NoPath
           saved == save_data(pass.save_file, df, gdf, disk)
       IN  /\ disk' = IF due THEN saved.files ELSE disk
           /\ pass' = [pass EXCEPT !.state = IF due /\ saved.raised THEN "aborted" ELSE "done"]
           /\ last' = [NoStep EXCEPT !.kind = "finish", !.saved = due,
                                     !.save_raised = due /\ saved.raised]
    /\ UNCHANGED <<polygons_file, df, gdf, phase, q>>

NextQuery ==
    \/ Load
    \/ QueryPointInZones
    \/ QueryIsPointInAnyZone
    \/ QueryRestaurantsForPoint
    \/ QueryGetStats

NextEnrich ==
    \/ Load
    \/ EnrichStart
    \/ EnrichStep
    \/ EnrichFinish

\* The process dies inside the loop of its first pass, after a checkpoint
\* has written the output file; a new process builds its checker from that
\* file: RTEZoneChecker(save_file), and will run one pass.
Crash ==
    /\ phase = "loaded"
    /\ pass.state = "running"
    /\ pass.n = 1
    /\ polygons_file # pass.save_file
    /\ Supported(pass.save_file)
    /\ disk[pass.save_file].exists
    /\ polygons_file' = pass.save_file
    /\ df' = NoneFrame
    /\ gdf' = NoneGeoFrame
    /\ phase' = "new"
    /\ pass' = [IdlePass EXCEPT !.n = 1]
    /\ last' = [NoStep EXCEPT !.kind = "crash"]
    /\ UNCHANGED <<disk, q>>

NextRecover ==
    \/ Load
    \/ EnrichStart
    \/ EnrichStep
    \/ EnrichFinish
    \/ Crash

NextReload ==
    \/ Load
    \/ Reload

Next == NextQuery \/ NextEnrich \/ NextRecover \/ NextReload

SpecQuery == InitQuery /\ [][NextQuery]_vars

SpecEnrich == InitEnrich /\ [][NextEnrich]_vars

SpecRecover == InitEnrich /\ [][NextRecover]_vars

SpecReload == InitReload /\ [][NextReload]_vars

Spec == Init /\ [][Next]_vars

(***************************************************************************)
(* Properties of the queries (SpecQuery)                                   *)
(***************************************************************************)
ResultLabels == {q.results[j].index : j \in 1..Len(q.results)}

\* C1: point_in_zones returns exactly the stored zones whose polygon contains
\* the point taken as (x = lon, y = lat), every one of them, ordered by zone
\* id ascending.
C1_PointInZonesExact ==
    q.op = "point_in_zones" =>
        /\ ~q.raised
        /\ \A j \in 1..Len(q.results) : q.results[j] \in Range(gdf.recs)
        /\ \A k \in 1..Len(gdf.recs) :
              (gdf.recs[k].index \in ResultLabels)
                  <=> contains(gdf.recs[k].geometry, XY(q.lon, q.lat))
        /\ \A i, j \in 1..Len(q.results) :
              i < j => q.results[i].index < q.results[j].index

\* Two zones match the point and a third stored zone does not.
C1_Witness ==
    /\ q.op = "point_in_zones"
    /\ Len(q.results) = 2
    /\ Len(gdf.recs) = 3
    /\ q.lat # q.lon

\* The source table as it is on disk.
Source == disk[polygons_file]

\* The boundary text of source row i (counted from 1) is there and parses.
GoodRow(i) ==
    /\ Source.rows[i]["WKT"] # EmptyText
    /\ ~loads(Source.rows[i]["WKT"]).raised

StoreLabels == {gdf.recs[k].index : k \in 1..Len(gdf.recs)}

\* C2: after a successful load the store is the subsequence of the source
\* rows whose boundary text is non-empty and parses, in source order, each
\* under its original row position; the other rows are in no query result
\* and neither fail the load nor drop another row.
C2_StoreIsValidRows ==
    /\ phase # "new" =>
          (phase = "loaded" <=>
              /\ Supported(polygons_file)
              /\ Source.exists
              /\ "WKT" \in Range(Source.columns))
    /\ phase = "loaded" =>
          /\ StoreLabels = {i - 1 : i \in {j \in 1..Len(Source.rows) : GoodRow(j)}}
          /\ \A k, m \in 1..Len(gdf.recs) :
                k < m => gdf.recs[k].index < gdf.recs[m].index
          /\ \A k \in 1..Len(gdf.recs) :
                LET i == gdf.recs[k].index + 1
                IN  /\ gdf.recs[k].geometry = loads(Source.rows[i]["WKT"]).geom
                    /\ \A c \in Range(Source.columns) :
                          gdf.recs[k].attrs[c] = ReadCell(c, Source.rows[i][c])
          /\ \A j \in 1..Len(q.results) : GoodRow(q.results[j].index + 1)
          /\ \A g \in 1..Len(q.groups) : \A e \in 1..Len(q.groups[g].zones) :
                GoodRow(q.groups[g].zones[e].index + 1)

\* A store whose first zone is not the first source row, queried at a point
\* that zone contains.
C2_Witness ==
    /\ phase = "loaded"
    /\ Len(gdf.recs) >= 1
    /\ gdf.recs[1].index >= 1
    /\ Len(gdf.recs) < Len(Source.rows)
    /\ q.op = "point_in_zones"
    /\ Len(q.results) >= 1

\* C3 as claimed: a point on a stored zone's boundary is matched by that zone,
\* and is_point_in_any_zone is true of it.
C3_EdgeInclusive ==
    /\ q.op = "point_in_zones" =>
          \A k \in 1..Len(gdf.recs) :
              OnBoundary(gdf.recs[k].geometry, XY(q.lon, q.lat))
                  => gdf.recs[k].index \in ResultLabels
    /\ q.op = "is_point_in_any_zone" =>
          ((\E k \in 1..Len(gdf.recs) :
                OnBoundary(gdf.recs[k].geometry, XY(q.lon, q.lat))) => q.value)

\* The point lies strictly inside the polygon.
StrictlyInside(geom, p) == covers(geom, p) /\ ~OnBoundary(geom, p)

\* C3, amended: containment excludes the boundary.  A point on a stored
\* zone's boundary is not matched by that zone, and is_point_in_any_zone is
\* true exactly when the point lies strictly inside some stored zone.
C3_BoundaryExcluded ==
    /\ q.op = "point_in_zones" =>
          \A k \in 1..Len(gdf.recs) :
              OnBoundary(gdf.recs[k].geometry, XY(q.lon, q.lat))
                  => gdf.recs[k].index \notin ResultLabels
    /\ q.op = "is_point_in_any_zone" =>
          (q.value <=> \E k \in 1..Len(gdf.recs) :
                          StrictlyInside(gdf.recs[k].geometry, XY(q.lon, q.lat)))

\* A point on one zone's boundary and strictly inside another zone.
C3_Witness ==
    /\ q.op = "point_in_zones"
    /\ Len(q.results) >= 1
    /\ \E k \in 1..Len(gdf.recs) :
          OnBoundary(gdf.recs[k].geometry, XY(q.lon, q.lat))

\* The zones the last query's point matches, and their restaurant attribute.
Matched == Matching(gdf.recs, XY(q.lon, q.lat))

RestaurantOf(zone) ==
    IF "ID_rest" \in DOMAIN zone.attrs THEN zone.attrs["ID_rest"] ELSE "unknown"

HasRestaurant(zone) ==
    "ID_rest" \in DOMAIN zone.attrs /\ zone.attrs["ID_rest"] # NaN

\* The groups whose zone list has an entry for the zone.
GroupsOf(zone) ==
    {g \in 1..Len(q.groups) :
        \E e \in 1..Len(q.groups[g].zones) : q.groups[g].zones[e].index = zone.index}

EntryCount(g) == Len(q.groups[g].zones)

RECURSIVE SumEntries(_)
SumEntries(g) == IF g = 0 THEN 0 ELSE EntryCount(g) + SumEntries(g - 1)

\* C4: get_restaurants_for_point partitions the matched zones by restaurant
\* identifier: one group per distinct identifier, groups in first-seen
\* order, every matched zone exactly once, in its own group, in id order.
C4_GroupsPartitionMatches ==
    q.op = "get_restaurants_for_point" =>
        /\ ~q.raised
        \* one group per distinct restaurant identifier
        /\ \A k \in 1..Len(Matched) :
              HasRestaurant(Matched[k]) =>
                  Cardinality({g \in 1..Len(q.groups) :
                      q.groups[g].restaurant_id = RestaurantOf(Matched[k])}) = 1
        \* every matched zone once, in a group of its own identifier
        /\ SumEntries(Len(q.groups)) = Len(Matched)
        /\ \A k \in 1..Len(Matched) :
              /\ Cardinality(GroupsOf(Matched[k])) = 1
              /\ \A g \in GroupsOf(Matched[k]) :
                    q.groups[g].restaurant_id = RestaurantOf(Matched[k])
        \* entries in id order, groups in first-seen order, none empty
        /\ \A g \in 1..Len(q.groups) :
              /\ EntryCount(g) >= 1
              /\ \A e, f \in 1..EntryCount(g) :
                    e < f => q.groups[g].zones[e].index < q.groups[g].zones[f].index
        /\ \A g, h \in 1..Len(q.groups) :
              g < h => q.groups[g].zones[1].index < q.groups[h].zones[1].index

\* Three zones match: two of one restaurant in one group, the third, of
\* another restaurant, in a group of its own.
C4_Witness ==
    /\ q.op = "get_restaurants_for_point"
    /\ Len(Matched) = 3
    /\ Len(q.groups) = 2
    /\ \E g \in 1..Len(q.groups) : EntryCount(g) = 2

\* C5 as claimed: every matched zone without a restaurant identifier (no such
\* column, or no value in the row) is in the one group "unknown", and a
\* group's partner is that of the first zone seen for its key.
C5_AbsentIdIsUnknown ==
    q.op = "get_restaurants_for_point" =>
        /\ \A k \in 1..Len(Matched) :
              ~HasRestaurant(Matched[k]) =>
                  \A g \in GroupsOf(Matched[k]) : q.groups[g].restaurant_id = "unknown"
        /\ Cardinality({g \in 1..Len(q.groups) :
                            q.groups[g].restaurant_id = "unknown"}) <= 1
        /\ \A g \in 1..Len(q.groups) :
              \E k \in 1..Len(Matched) :
                  /\ Matched[k].index = q.groups[g].zones[1].index
                  /\ q.groups[g].partner = Matched[k].attrs["Partner"]

\* The store the last query ran on was never loaded or holds no zone.
NoZones == gdf.isNone \/ Len(gdf.recs) = 0

\* C11 as claimed: every public query operation (point_in_zones,
\* is_point_in_any_zone, get_restaurants_for_point, get_stats) on a store
\* that was never loaded or holds zero zones ends in a data-source error,
\* never in a silent empty result.
C11_EmptyStoreQueryRaises ==
    (q.op # "none" /\ NoZones) => q.raised

(***************************************************************************)
(* Properties of the enrichment pass (SpecEnrich)                          *)
(***************************************************************************)
\* A city that is empty or absent.
NoCity(city) == city \in {NaN, None, ""}

\* The labels of the records among the first n whose city was empty or
\* absent when the pass came to them, in stored order.
RECURSIVE PendingLabels(_)
PendingLabels(n) ==
    IF n = 0 THEN <<>>
    ELSE IF NoCity(pass.seen[n])
         THEN Append(PendingLabels(n - 1), gdf.recs[n].index)
         ELSE PendingLabels(n - 1)

\* C6: a pass looks up a record if and only if the record's city is empty or
\* absent when the pass visits it; the other records keep their city, and a
\* pass right after a pass whose every lookup succeeded looks nothing up.
C6_LookupIffPending ==
    pass.state # "idle" =>
        /\ pass.looked = PendingLabels(pass.cursor - 1)
        /\ \A k \in 1..Len(gdf.recs) :
              ~NoCity(pass.seen[k]) => CityAt(gdf, k) = pass.seen[k]
        /\ (\A k \in 1..Len(gdf.recs) : ~NoCity(pass.seen[k])) =>
              /\ pass.looked = <<>>
              /\ \A k \in 1..Len(gdf.recs) : CityAt(gdf, k) = pass.seen[k]
        /\ pass.after_clean_pass => pass.looked = <<>>

\* A second pass, run after a first whose lookups all succeeded, has visited
\* every record and looked nothing up.
C6_Witness ==
    /\ pass.n = 2
    /\ pass.after_clean_pass
    /\ pass.state = "done"
    /\ Len(gdf.recs) = 2
    /\ \E k \in 1..Len(gdf.recs) : CityAt(gdf, k) = "Kazan"

\* The city a reload of the pass's output file gives the record labelled idx
\* is the city the store holds for it.
ReloadedCityIsStored(idx) ==
    LET reloaded == load_data(pass.save_file, disk, NoneFrame, NoneGeoFrame)
    IN  /\ ~reloaded.raised
        /\ HasLabel(reloaded.gdf, idx)
        /\ "city" \in DOMAIN RecAt(reloaded.gdf, idx).attrs
        /\ \/ RecAt(reloaded.gdf, idx).attrs["city"] = RecAt(gdf, idx).attrs["city"]
           \/ /\ NoCity(RecAt(reloaded.gdf, idx).attrs["city"])
              /\ NoCity(RecAt(gdf, idx).attrs["city"])

\* C7 as claimed: once a pass with an output path (of a supported format) and
\* batch size B has processed B records, the output file holds, as seen by
\* reloading it, the city the pass wrote for each of the first B of them.
C7_CheckpointHoldsCities ==
    (/\ pass.state \in {"running", "done"}
     /\ Supported(pass.save_file)
     /\ Len(pass.looked) >= pass.batch_size) =>
        \A j \in 1..pass.batch_size : ReloadedCityIsStored(pass.looked[j])

\* C8 as claimed: a checkpoint save is triggered exactly when the number of
\* records successfully enriched in this pass reaches a multiple of N.
C8_CheckpointOnSuccessCount ==
    (last.kind = "visit" /\ pass.save_file # NoPath) =>
        (last.saved <=>
            /\ last.pending
            /\ ~NoCity(last.city)
            /\ pass.succeeded % pass.batch_size = 0)

\* C8, amended: a checkpoint save is triggered exactly when the number of
\* records looked up in this pass, whatever the outcome, reaches a multiple
\* of N.
C8_CheckpointOnProcessedCount ==
    last.kind = "visit" =>
        (last.saved <=>
            /\ last.pending
            /\ pass.save_file # NoPath
            /\ Len(pass.looked) % pass.batch_size = 0)

\* A lookup that gave no city completes a batch of two and triggers the
\* checkpoint.
C8_Witness ==
    /\ last.kind = "visit"
    /\ last.saved
    /\ NoCity(last.city)
    /\ pass.batch_size = 2
    /\ pass.succeeded = 0

\* A lookup that failed: no centroid, no response, a status other than 200 or
\* a body that is not JSON.
Failed(outcome) ==
    \/ outcome.kind \in {"centroid_error", "network_error"}
    \/ outcome.status # 200
    \/ ~outcome.json

PositionOf(idx) == CHOOSE k \in 1..Len(gdf.recs) : gdf.recs[k].index = idx

\* C9: a failed lookup is never fatal.  The record's city stays empty, the
\* pass goes on (it stops only when a save raises), and a pass that ends has
\* looked up every pending record, in stored order.
C9_LookupFailureNotFatal ==
    /\ (last.kind = "visit" /\ last.pending /\ Failed(last.outcome)) =>
          /\ NoCity(CityAt(gdf, PositionOf(last.zone)))
          /\ pass.state = "running" \/ last.save_raised
    /\ pass.state = "aborted" => last.save_raised
    /\ pass.state = "done" => pass.looked = PendingLabels(Len(gdf.recs))

\* A lookup answered right after a lookup that failed: the earlier call
\* returned without the delay, its record is still without a city, and the
\* pass went on to this one.
C9_Witness ==
    /\ last.kind = "visit"
    /\ last.requested
    /\ last.gap = 0
    /\ ~NoCity(last.city)
    /\ Len(pass.looked) = 2
    /\ NoCity(CityAt(gdf, PositionOf(pass.looked[1])))
    /\ pass.state = "running"

\* C10 as claimed: between two successive lookup calls of a pass the
\* rate-limit delay elapses after the earlier call returns, whatever its
\* outcome; nothing delays the first call.
C10_DelayBetweenCalls ==
    (last.kind = "visit" /\ last.requested) =>
        (last.gap = -1 \/ last.gap >= Delay)

\* The file the last save wrote.
Written == disk[pass.save_file]

\* The last step saved, and the save returned.
SaveReturned == last.kind \in {"visit", "finish"} /\ last.saved /\ ~last.save_raised

\* The store's columns that the source lacks, the geometry aside.
NewColumns == (Range(gdf.columns) \ Range(Source.columns)) \ {"geometry"}

\* C12: save_data writes one row per source row, in source order, the rows
\* excluded from the store included, every source column as the source has
\* it; a store column the source lacks holds, in the row labelled i, the
\* store's value for record i and nothing in a row without a record; the
\* geometry is never a column.
C12_SaveWritesSourceRows ==
    SaveReturned =>
        /\ Written.exists
        /\ Len(Written.rows) = Len(Source.rows)
        /\ Len(Written.columns) >= Len(Source.columns)
        /\ \A j \in 1..Len(Source.columns) : Written.columns[j] = Source.columns[j]
        /\ \A i \in 1..Len(Source.rows) : \A c \in Range(Source.columns) :
              Written.rows[i][c] = Source.rows[i][c]
        /\ "geometry" \notin Range(Written.columns)
        /\ Range(Written.columns) \subseteq Range(Source.columns) \cup NewColumns
        /\ \A c \in NewColumns :
              \A i \in 1..Len(Source.rows) :
                  IF HasLabel(gdf, i - 1)
                  THEN /\ c \in Range(Written.columns)
                       /\ Written.rows[i][c] = WriteCell(c, RecAt(gdf, i - 1).attrs[c])
                  ELSE c \in Range(Written.columns) => Written.rows[i][c] = ""

\* A save of a two-row source whose first row is no zone: the second row has
\* the city the store holds for record 1, the first row has none.
C12_Witness ==
    /\ SaveReturned
    /\ Len(Source.rows) = 2
    /\ "city" \notin Range(Source.columns)
    /\ Len(gdf.recs) = 1
    /\ gdf.recs[1].index = 1
    /\ CityAt(gdf, 1) = "Kazan"
    /\ Written.rows[2]["city"] = "Kazan"
    /\ Written.rows[1]["city"] = ""

\* C13 as claimed: a save to a destination whose extension is neither .xlsx
\* nor .csv fails with a format error, writes no file and leaves the store as
\* it was when the save was called; the failure ends that save only: at a
\* checkpoint inside a pass, the pass goes on to the remaining records.
C13_FormatErrorEndsSaveOnly ==
    [][last'.saved =>
          /\ last'.save_raised <=> ~Supported(pass'.save_file)
          /\ last'.save_raised =>
                /\ disk' = disk
                /\ gdf' = IF last'.kind = "visit"
                          THEN SetCity(gdf, pass.cursor, last'.city)
                          ELSE gdf
                /\ last'.kind = "visit" => pass'.state = "running"]_vars

\* A pass writing to a supported path has visited every record and returned
\* or raised.
PassEnded ==
    /\ pass.state \in {"done", "aborted"}
    /\ Supported(pass.save_file)
    /\ pass.cursor > Len(gdf.recs)

\* The written file holds, in the row of every stored record, the city the
\* store holds for it.
FileReflectsStore ==
    /\ Written.exists
    /\ \A k \in 1..Len(gdf.recs) :
          /\ "city" \in Range(Written.columns)
          /\ Written.rows[gdf.recs[k].index + 1]["city"] = WriteCell("city", CityAt(gdf, k))

\* C14 as claimed: every pass with an output path that visits all records
\* ends with one final save after the last record, whether the number of
\* processed records is a multiple of the batch size, is not, or is zero,
\* and the file it writes reflects the store at the end of the pass.
C14_FinalSaveReflectsStore ==
    PassEnded =>
        /\ pass.state = "done"
        /\ last.kind = "finish"
        /\ last.saved
        /\ ~last.save_raised
        /\ FileReflectsStore

(***************************************************************************)
(* Properties of a repeated load (SpecReload)                              *)
(***************************************************************************)
\* The store is the zones of the raw rows: the rows' columns and the
\* geometry, and every record the row of its label.
PairedFrames ==
    /\ ~df.isNone
    /\ ~gdf.isNone
    /\ gdf.columns = Append(df.columns, "geometry")
    /\ \A k \in 1..Len(gdf.recs) :
          /\ gdf.recs[k].index < Len(df.rows)
          /\ gdf.recs[k].attrs = df.rows[gdf.recs[k].index + 1]

\* The file the checker points at can be loaded.
Loadable ==
    /\ Supported(polygons_file)
    /\ Source.exists
    /\ "WKT" \in Range(Source.columns)

\* C15 as claimed: a load fails exactly when the extension is not supported
\* or the WKT column is absent (or the file cannot be read), and after a
\* failure, also of load_data re-run on a loaded checker whose path was
\* changed, the raw rows and the zone store are both unavailable (no checker
\* was built) or both those of one successful load.
C15_NoPartialStore ==
    /\ last.kind \in {"reload", "reload_raised"} =>
          (last.kind = "reload_raised" <=> ~Loadable)
    /\ phase = "failed" => ~Loadable
    /\ phase = "loaded" => PairedFrames

(***************************************************************************)
(* Properties of a pass run on a checkpoint file (SpecRecover)             *)
(***************************************************************************)
\* The checker was built from the file an interrupted pass had written.
Recovered == polygons_file = OutCsv /\ phase = "loaded"

\* The file has no city for the row labelled idx.
FileCityEmpty(idx) ==
    "city" \notin Range(Source.columns) \/ Source.rows[idx + 1]["city"] = ""

\* The labels of the records among the first n whose city the file lacks.
RECURSIVE FilePending(_)
FilePending(n) ==
    IF n = 0 THEN <<>>
    ELSE IF FileCityEmpty(gdf.recs[n].index)
         THEN Append(FilePending(n - 1), gdf.recs[n].index)
         ELSE FilePending(n - 1)

\* C16: a pass run on a checker loaded from the checkpoint file of an
\* interrupted pass looks up a record exactly when the file has no city for
\* it; a record whose city the file holds keeps that city and is not looked
\* up again; the file holds the source's columns and the city, and no
\* marker of a pass in progress.
C16_RecoveryPendingIffFileCityEmpty ==
    Recovered =>
        /\ Range(Source.columns) \subseteq Range(disk[PolygonsCsv].columns) \cup {"city"}
        /\ pass.state # "idle" =>
              /\ pass.looked = FilePending(pass.cursor - 1)
              /\ \A k \in 1..Len(gdf.recs) :
                    ~FileCityEmpty(gdf.recs[k].index) =>
                        CityAt(gdf, k) = Source.rows[gdf.recs[k].index + 1]["city"]

\* A recovered pass has ended over two records: the file held the city of
\* the first, found before the crash, and not of the second, and only the
\* second was looked up.
C16_Witness ==
    /\ Recovered
    /\ pass.state = "done"
    /\ Len(gdf.recs) = 2
    /\ "city" \notin Range(disk[PolygonsCsv].columns)
    /\ Source.rows[gdf.recs[1].index + 1]["city"] = "Kazan"
    /\ pass.looked = <<gdf.recs[2].index>>

====
